---- MODULE Spec2Model ----
(***************************************************************************)
(* A model of the CurseForge API client (src/src/api/client.rs) and its    *)
(* error type (src/src/errors.rs): client construction, URL building, the  *)
(* GET/POST retry loop, upload_file and download_file; and of the endpoint *)
(* helpers of search.rs, project.rs and category.rs, which build an        *)
(* endpoint and call get.                                                  *)
(*                                                                         *)
(* Spec runs one operation at a time on one client; ApiSpec the endpoint   *)
(* helpers; FairSpec the get/post calls under fairness; ConfigSpec get and *)
(* post with writes through config_mut between the calls; SharedSpec two   *)
(* callers whose get/post calls interleave on one shared client.           *)
(*                                                                         *)
(* Strings are sequences of symbols.  Header values (API key, user agent)  *)
(* are sequences of byte codes, because header validity is decided byte by *)
(* byte.  URLs and endpoints are sequences of tokens: "https://", a host,  *)
(* "/", ".", " ", "%20", path words, "?", "&", parameter names and values. *)
(***************************************************************************)
EXTENDS Integers, Sequences, FiniteSets, TLC

VARIABLES
    client,      \* the constructed CurseForgeClient (config + default headers), or NoClient
    op,          \* the operation last started: "none", "new", "with_config",
                 \* "build_url", "get", "post", "is_retryable", "clone",
                 \* "status_code", "upload_file", "download_file", and the endpoint
                 \* helpers: "search_projects", "search_projects_simple", ...
    input,       \* the argument of that operation
    pc,          \* position of the operation: "idle", "loop", "sleeping",
                 \* "streaming", "done"
    attempt,     \* request_with_retry: `attempt`
    last_error,  \* request_with_retry: `last_error`
    result,      \* the value the operation returned, or None
    raised,      \* the error returned by the most recent make_request, or None
    response,    \* the server's answer to the most recent make_request, or None
    events,      \* what the call has done so far, in order: its attempts and its
                 \* sleeps, each sleep with its length; for upload_file and
                 \* download_file, its send and its file operations
    seen,        \* the kinds of outcome the call's attempts have had so far
    file,        \* download_file: the file at the destination path (its content, in
                 \* chunks), or None when there is no file there
    requests,    \* the requests the builder closure of the call has built so far, each
                 \* with the pass of the loop it was built in and the pass it was
                 \* sent in
    calls        \* the get and post calls that run at the same time on the one
                 \* client, each with the locals of its request_with_retry

vars ==
    <<client, op, input, pc, attempt, last_error, result, raised, response, events, seen,
      file, requests, calls>>

-----------------------------------------------------------------------------
(* Bounds of the model *)

\* width of the retry counter: max_retries and attempt range over 0 .. 2^CounterBits - 1
CounterBits == 2
\* longest endpoint, in tokens
MaxEndpointLen == 3
\* most chunks of a response body that download_file streams
MaxChunks == 2

-----------------------------------------------------------------------------
(* Values *)

None == [tag |-> "None"]
Some(v) == [tag |-> "Some", val |-> v]
Ok(v) == [tag |-> "Ok", val |-> v]
Err(e) == [tag |-> "Err", err |-> e]

NoClient == [tag |-> "NoClient"]

\* the largest value of the counter type (u32 in the source, CounterBits wide here)
CounterMax == 2^CounterBits - 1

RECURSIVE SeqsUpTo(_, _)
SeqsUpTo(S, n) ==
    IF n = 0 THEN {<<>>}
    ELSE LET shorter == SeqsUpTo(S, n - 1)
         IN  shorter \cup {Append(s, x) : s \in {t \in shorter : Len(t) = n - 1}, x \in S}

-----------------------------------------------------------------------------
(* CurseForgeError *)

ErrRequest(cause) == [kind |-> "Request", cause |-> cause]
ErrJson(cause) == [kind |-> "Json", cause |-> cause]
ErrUrl(cause) == [kind |-> "Url", cause |-> cause]
ErrIo(cause) == [kind |-> "Io", cause |-> cause]
ErrApi(status, message) == [kind |-> "Api", status |-> status, message |-> message]
ErrInvalidApiKey == [kind |-> "InvalidApiKey"]
ErrRateLimitExceeded == [kind |-> "RateLimitExceeded"]
ErrNotFound(msg) == [kind |-> "NotFound", msg |-> msg]
ErrInvalidParameters(msg) == [kind |-> "InvalidParameters", msg |-> msg]
ErrAuthenticationRequired == [kind |-> "AuthenticationRequired"]
ErrPermissionDenied(msg) == [kind |-> "PermissionDenied", msg |-> msg]
ErrDownloadFailed(msg) == [kind |-> "DownloadFailed", msg |-> msg]
ErrUploadFailed(msg) == [kind |-> "UploadFailed", msg |-> msg]
ErrInvalidFileFormat(msg) == [kind |-> "InvalidFileFormat", msg |-> msg]
ErrFileTooLarge(size, max) == [kind |-> "FileTooLarge", size |-> size, max |-> max]
ErrTimeout(timeout) == [kind |-> "Timeout", timeout |-> timeout]
ErrUnknown(msg) == [kind |-> "Unknown", msg |-> msg]

\* clone, were every error copied as it is
Clone_Identity(e) == e

\* impl Clone for CurseForgeError
Clone(e) ==
    CASE e.kind = "Request" -> ErrUnknown("Request error (not cloneable)")
      [] e.kind = "Json" -> ErrUnknown("JSON error (not cloneable)")
      [] e.kind = "Url" -> ErrUnknown("URL error (not cloneable)")
      [] e.kind = "Io" -> ErrUnknown("IO error (not cloneable)")
      [] OTHER -> e

\* is_retryable, were server errors (Api) counted as transient
is_retryable_WithServerErrors(e) ==
    e.kind \in {"Request", "Timeout", "RateLimitExceeded", "Api"}

\* CurseForgeError::is_retryable
is_retryable(e) == e.kind \in {"Request", "Timeout", "RateLimitExceeded"}

\* reqwest::Error::status: only an error made from a response status
\* (error_for_status) carries one; send, decode and builder errors carry none
RequestStatus(cause) == IF cause = "status 503" THEN Some(503) ELSE None

\* CurseForgeError::status_code
status_code(e) ==
    CASE e.kind = "Api" -> Some(e.status)
      [] e.kind = "Request" -> RequestStatus(e.cause)
      [] OTHER -> None

\* errors of every kind, as a caller may hold them
ErrorSamples ==
    {ErrRequest(c) : c \in {"send", "decode", "build", "status 503"}}
    \cup {ErrJson("syntax"), ErrUrl("RelativeUrlWithoutBase"), ErrUrl("EmptyHost"),
          ErrIo("NotFound")}
    \cup {ErrApi(st, "body-a") : st \in {302, 500, 599}}
    \cup {ErrInvalidApiKey, ErrRateLimitExceeded, ErrAuthenticationRequired}
    \cup {ErrNotFound("body-a"), ErrInvalidParameters("body-a"),
          ErrPermissionDenied("body-a"), ErrDownloadFailed("body-a"),
          ErrUploadFailed("body-a"), ErrInvalidFileFormat("body-a"),
          ErrUnknown("Request failed"), ErrUnknown("Request error (not cloneable)")}
    \cup {ErrFileTooLarge(2, 1), ErrTimeout(30)}

-----------------------------------------------------------------------------
(* Header values *)

\* API keys and user agents are made of two bytes here: LF (10) and 'A' (65)

\* "Bearer "
BearerPrefix == <<66, 101, 97, 114, 101, 114, 32>>

\* HeaderValue::from_str accepts visible ASCII, tab and bytes above 127
HeaderValueOk(bytes) ==
    \A i \in 1..Len(bytes) : (bytes[i] >= 32 /\ bytes[i] # 127) \/ bytes[i] = 9

-----------------------------------------------------------------------------
(* CurseForgeConfig *)

\* "https://api.curseforge.com/v1"
DefaultBaseUrl == <<"https://", "api.curseforge.com", "/", "v1">>
\* "curseforge-api-wrapper/0.1.0", abbreviated to "AA"
DefaultUserAgent == <<65, 65>>
DefaultTimeout == 30
DefaultMaxRetries == 3
DefaultRetryDelay == 1

\* impl Default for CurseForgeConfig
DefaultConfig ==
    [api_key |-> <<>>,
     base_url |-> DefaultBaseUrl,
     timeout |-> DefaultTimeout,
     user_agent |-> DefaultUserAgent,
     max_retries |-> DefaultMaxRetries,
     retry_delay |-> DefaultRetryDelay]

ApiKeys == {<<>>, <<65>>, <<10>>, <<65, 65>>, <<65, 10>>}
UserAgents == {DefaultUserAgent, <<65, 10>>}
BaseUrls == {DefaultBaseUrl, <<"https://", "api.curseforge.com">>, <<"api.curseforge.com", "/", "v1">>}
Timeouts == {DefaultTimeout}
RetryDelays == {DefaultRetryDelay, 2}

\* the configurations with_config is called with
Configs ==
    [api_key : ApiKeys, base_url : BaseUrls, timeout : Timeouts,
     user_agent : UserAgents, max_retries : 0..CounterMax, retry_delay : RetryDelays]

-----------------------------------------------------------------------------
(* Construction *)

\* with_config without its test for an empty key
with_config_NoEmptyCheck(config, buildOk) ==
    IF ~HeaderValueOk(BearerPrefix \o config.api_key) THEN Err(ErrInvalidApiKey)
    ELSE IF ~HeaderValueOk(config.user_agent)
         THEN Err(ErrInvalidParameters("Invalid user agent"))
    ELSE IF ~buildOk THEN Err(ErrRequest("build"))
    ELSE Ok([tag |-> "Client",
             config |-> config,
             headers |-> [authorization |-> BearerPrefix \o config.api_key,
                          user_agent |-> config.user_agent]])

\* with_config, were the Authorization header value built without being validated
with_config_KeyNotEncoded(config, buildOk) ==
    IF config.api_key = <<>> THEN Err(ErrInvalidApiKey)
    ELSE IF ~HeaderValueOk(config.user_agent)
         THEN Err(ErrInvalidParameters("Invalid user agent"))
    ELSE IF ~buildOk THEN Err(ErrRequest("build"))
    ELSE Ok([tag |-> "Client",
             config |-> config,
             headers |-> [authorization |-> BearerPrefix \o config.api_key,
                          user_agent |-> config.user_agent]])

\* CurseForgeClient::with_config; buildOk: whether ClientBuilder::build succeeds
with_config(config, buildOk) ==
    IF config.api_key = <<>> THEN Err(ErrInvalidApiKey)
    ELSE IF ~HeaderValueOk(BearerPrefix \o config.api_key) THEN Err(ErrInvalidApiKey)
    ELSE IF ~HeaderValueOk(config.user_agent)
         THEN Err(ErrInvalidParameters("Invalid user agent"))
    ELSE IF ~buildOk THEN Err(ErrRequest("build"))
    ELSE Ok([tag |-> "Client",
             config |-> config,
             headers |-> [authorization |-> BearerPrefix \o config.api_key,
                          user_agent |-> config.user_agent]])

\* new, were the key left out of the configuration it builds
new_KeepsDefaultKey(api_key, buildOk) == with_config(DefaultConfig, buildOk)

\* CurseForgeClient::new
new(api_key, buildOk) == with_config([DefaultConfig EXCEPT !.api_key = api_key], buildOk)

\* a construction returns; the caller keeps the client it got, if any
Constructed(name, arg, res) ==
    /\ op' = name
    /\ input' = arg
    /\ result' = IF res.tag = "Ok" THEN Ok("client") ELSE res
    /\ client' = IF res.tag = "Ok" THEN res.val ELSE NoClient
    /\ pc' = "done"
    /\ attempt' = 0
    /\ last_error' = None
    /\ raised' = None
    /\ response' = None
    /\ events' = <<>>
    /\ seen' = {}
    /\ file' = None
    /\ requests' = <<>>
    /\ UNCHANGED calls

\* no operation is in progress
Idle == pc = "idle"

\* a behaviour follows one client: construction is tried until it yields one
New ==
    /\ Idle
    /\ client = NoClient
    /\ \E api_key \in ApiKeys, buildOk \in BOOLEAN :
           Constructed("new", [api_key |-> api_key, transport |-> buildOk],
                       new(api_key, buildOk))

WithConfig ==
    /\ Idle
    /\ client = NoClient
    /\ \E config \in Configs, buildOk \in BOOLEAN :
           Constructed("with_config", [config |-> config, transport |-> buildOk],
                       with_config(config, buildOk))

-----------------------------------------------------------------------------
(* URLs *)

\* the tokens endpoints are made of
EndpointTokens == {"/", ".", " ", "test"}

\* the endpoints build_url is called with: empty, or starting with "/"
Endpoints == {e \in SeqsUpTo(EndpointTokens, MaxEndpointLen) : e = <<>> \/ e[1] = "/"}

\* the endpoint get and post are called with: "/test"
CallEndpoints == {<<"/", "test">>}

\* the numbers the endpoint helpers are given: ids, indexes, page sizes
ParamNumbers == {0, 1, 2, 3, 7, 20, 50, 51, 100, 432}

\* the tokens of the endpoints the helpers build: path words, the marks of a query
\* string, parameter names (as written and in lower case), and values
HelperTokens ==
    {"mods", "search", "categories", "files", "?", "&",
     "gameId=", "classId=", "categoryId=", "gameVersion=", "searchFilter=",
     "sortField=", "sortOrder=", "modLoaderType=", "gameVersionTypeId=", "authorId=",
     "slug=", "index=", "pageSize=", "sortfield=", "sortorder=", "modloadertype=",
     "Relevance", "Popularity", "LastUpdated", "Desc", "Forge",
     "relevance", "popularity", "lastupdated", "desc", "forge", "1.20", "jei"}
    \cup {ToString(n) : n \in ParamNumbers}

\* the tokens URL text is made of, and URL text
UrlTokens ==
    {"https://", "api.curseforge.com", "/", ".", " ", "%20", "v1", "test"} \cup HelperTokens
UrlText == Seq(UrlTokens)

\* index of the first "?" of s, or Len(s) + 1 when there is none
FirstQuestion(s) ==
    IF \E i \in 1..Len(s) : s[i] = "?"
    THEN CHOOSE i \in 1..Len(s) : s[i] = "?" /\ \A j \in 1..(i - 1) : s[j] # "?"
    ELSE Len(s) + 1

\* index of the first "/" of s, or Len(s) + 1 when there is none
FirstSlash(s) ==
    IF \E i \in 1..Len(s) : s[i] = "/"
    THEN CHOOSE i \in 1..Len(s) : s[i] = "/" /\ \A j \in 1..(i - 1) : s[j] # "/"
    ELSE Len(s) + 1

\* the path segments of s, the text that follows the path's leading "/"
SplitPath[s \in UrlText] ==
    LET i == FirstSlash(s)
    IN  IF i > Len(s) THEN <<s>>
        ELSE <<SubSeq(s, 1, i - 1)>> \o SplitPath[SubSeq(s, i + 1, Len(s))]

\* percent-encoding of a path segment: a space becomes %20
PercentEncode[seg \in UrlText] ==
    IF seg = <<>> THEN <<>>
    ELSE <<IF Head(seg) = " " THEN "%20" ELSE Head(seg)>> \o PercentEncode[Tail(seg)]

\* the URL parser's path state: "." segments are dropped, ".." segments remove
\* the segment before them, and a dot segment that ends the path leaves an
\* empty last segment
NormalizePath[segs \in Seq(UrlText), out \in Seq(UrlText)] ==
    IF segs = <<>> THEN out
    ELSE LET seg == Head(segs)
             last == Len(segs) = 1
             shortened == IF out = <<>> THEN out ELSE SubSeq(out, 1, Len(out) - 1)
         IN  IF seg = <<".", ".">>
             THEN NormalizePath[Tail(segs), IF last THEN Append(shortened, <<>>) ELSE shortened]
             ELSE IF seg = <<".">>
             THEN NormalizePath[Tail(segs), IF last THEN Append(out, <<>>) ELSE out]
             ELSE NormalizePath[Tail(segs), Append(out, PercentEncode[seg])]

\* the serialization of a path: "/" before every segment
SerializePath[segs \in Seq(UrlText)] ==
    IF segs = <<>> THEN <<>>
    ELSE <<"/">> \o Head(segs) \o SerializePath[Tail(segs)]

\* the URL parser first removes leading and trailing spaces from its input
TrimSpaces[s \in UrlText] ==
    IF s = <<>> THEN s
    ELSE IF Head(s) = " " THEN TrimSpaces[Tail(s)]
    ELSE IF s[Len(s)] = " " THEN TrimSpaces[SubSeq(s, 1, Len(s) - 1)]
    ELSE s

\* the parser after the scheme, on the host, the path and the query (the text from
\* the first "?" on, empty when there is none): the query is kept as it is but for
\* its spaces, which become %20
ParseHostPath[host \in UrlText, path \in UrlText, query \in UrlText] ==
    IF host = <<>> THEN Err(ErrUrl("EmptyHost"))
    ELSE IF \E i \in 1..Len(host) : host[i] = " "
         THEN Err(ErrUrl("InvalidDomainCharacter"))
    ELSE Ok(<<"https://">> \o host
            \o SerializePath[NormalizePath[SplitPath[path], <<>>]]
            \o (IF query = <<>> THEN <<>> ELSE <<"?">> \o PercentEncode[Tail(query)]))

\* the host ends at the first "/"; the path follows it
ParseAuthority[rest \in UrlText, query \in UrlText] ==
    ParseHostPath[SubSeq(rest, 1, FirstSlash(rest) - 1),
                  SubSeq(rest, FirstSlash(rest) + 1, Len(rest)),
                  query]

\* the parser on trimmed text: the scheme, then host and path, which the first "?"
\* ends, then the query
ParseTrimmed[s \in UrlText] ==
    IF s = <<>> \/ s[1] # "https://" THEN Err(ErrUrl("RelativeUrlWithoutBase"))
    ELSE ParseAuthority[SubSeq(s, 2, FirstQuestion(s) - 1),
                        SubSeq(s, FirstQuestion(s), Len(s))]

\* Url::parse: the parsed URL, held as its serialization (Url::as_str), or the ParseError
UrlParse(str) == ParseTrimmed[TrimSpaces[str]]

\* build_url, were the endpoint resolved against the base URL (Url::join): an
\* endpoint that starts with "/" replaces the path of the base
build_url_Join(c, endpoint) ==
    IF endpoint # <<>> /\ endpoint[1] = "/" /\ Len(c.config.base_url) >= 2
    THEN UrlParse(SubSeq(c.config.base_url, 1, 2) \o endpoint)
    ELSE UrlParse(c.config.base_url \o endpoint)

\* CurseForgeClient::build_url
build_url(c, endpoint) == UrlParse(c.config.base_url \o endpoint)

\* what the holder of config_mut's reference writes: one field of the configuration
ConfigWrites ==
    {<<"api_key", k>> : k \in ApiKeys}
    \cup {<<"user_agent", u>> : u \in UserAgents}
    \cup {<<"base_url", b>> : b \in BaseUrls}
    \cup {<<"max_retries", n>> : n \in {0, 1}}

\* the client after the write, were the headers of the HTTP client derived anew
config_mut_RebuildsHeaders(c, field, value) ==
    LET config == [c.config EXCEPT ![field] = value]
    IN  [c EXCEPT !.config = config,
                  !.headers = [authorization |-> BearerPrefix \o config.api_key,
                               user_agent |-> config.user_agent]]

\* CurseForgeClient::config_mut and a write through the reference it returns
config_mut(c, field, value) == [c EXCEPT !.config[field] = value]

ConfigMut ==
    /\ Idle
    /\ client # NoClient
    /\ \E write \in ConfigWrites : client' = config_mut(client, write[1], write[2])
    /\ UNCHANGED <<op, input, pc, attempt, last_error, result, raised, response, events,
                   seen, file, requests, calls>>

\* an operation on the client starts: the state of the previous one is dropped
Started(name, arg) ==
    /\ op' = name
    /\ input' = arg
    /\ attempt' = 0
    /\ last_error' = None
    /\ raised' = None
    /\ response' = None
    /\ events' = <<>>
    /\ seen' = {}
    /\ file' = None
    /\ requests' = <<>>
    /\ UNCHANGED <<client, calls>>

\* the caller has taken the result of the operation and is ready for the next one
Return ==
    /\ pc = "done"
    /\ pc' = "idle"
    /\ op' = "none"
    /\ input' = None
    /\ result' = None
    /\ attempt' = 0
    /\ last_error' = None
    /\ raised' = None
    /\ response' = None
    /\ events' = <<>>
    /\ seen' = {}
    /\ file' = None
    /\ requests' = <<>>
    /\ UNCHANGED <<client, calls>>

BuildUrl ==
    /\ Idle
    /\ client # NoClient
    /\ \E endpoint \in Endpoints :
           /\ Started("build_url", [endpoint |-> endpoint])
           /\ result' = build_url(client, endpoint)
           /\ pc' = "done"

\* a caller asks an error whether it is retryable
IsRetryable ==
    /\ Idle
    /\ \E e \in ErrorSamples :
           /\ Started("is_retryable", [error |-> e])
           /\ result' = Ok(is_retryable(e))
           /\ pc' = "done"

\* a caller clones an error
CloneError ==
    /\ Idle
    /\ \E e \in ErrorSamples :
           /\ Started("clone", [error |-> e])
           /\ result' = Ok(Clone(e))
           /\ pc' = "done"

\* a caller asks an error for its HTTP status code
StatusCode ==
    /\ Idle
    /\ \E e \in ErrorSamples :
           /\ Started("status_code", [error |-> e])
           /\ result' = Ok(status_code(e))
           /\ pc' = "done"

-----------------------------------------------------------------------------
(* Server responses *)

Statuses == {200, 302, 400, 401, 403, 404, 429, 499, 500, 599}
BodyTexts == {"body-a", "body-b"}

\* StatusCode::is_success
is_success(status) == status >= 200 /\ status <= 299

\* what one send can meet: a transport failure, or a response.  readable: whether
\* response.text() yields the body; decodable: whether response.json::<T>() yields a T
Outcomes ==
    {[sent |-> FALSE]}
    \cup {[sent |-> TRUE, status |-> st, body |-> b, readable |-> TRUE, decodable |-> TRUE] :
              st \in {x \in Statuses : is_success(x)}, b \in BodyTexts}
    \cup {[sent |-> TRUE, status |-> st, body |-> "body-a", readable |-> r,
           decodable |-> FALSE] : st \in Statuses, r \in BOOLEAN}
    \cup {[sent |-> TRUE, status |-> st, body |-> "body-b", readable |-> TRUE,
           decodable |-> FALSE] : st \in {x \in Statuses : ~is_success(x)}}

\* the decoded value, were it not taken from the body of this response
Decoded_Fixed(body) == [data |-> "body-a"]

\* the value response.json::<T>() decodes from a body
Decoded(body) == [data |-> body]

\* the status match, were its generic 4xx arm placed before the specific ones
StatusError_GenericFirst(status, error_text) ==
    CASE status >= 400 /\ status <= 499 -> ErrInvalidParameters(error_text)
      [] status >= 500 /\ status <= 599 -> ErrApi(status, error_text)
      [] OTHER -> ErrApi(status, error_text)

\* make_request, the status match of a non-2xx response
StatusError(status, error_text) ==
    CASE status = 401 -> ErrAuthenticationRequired
      [] status = 403 -> ErrPermissionDenied(error_text)
      [] status = 404 -> ErrNotFound(error_text)
      [] status = 429 -> ErrRateLimitExceeded
      [] status \notin {401, 403, 404, 429} /\ status >= 400 /\ status <= 499 ->
             ErrInvalidParameters(error_text)
      [] status >= 500 /\ status <= 599 -> ErrApi(status, error_text)
      [] OTHER -> ErrApi(status, error_text)

\* whether make_request gets as far as sending a request: the builder closure of
\* get and post fails when build_url fails
RequestBuilt(c, endpoint) == build_url(c, endpoint).tag = "Ok"

\* CurseForgeClient::make_request, given what the send meets
make_request(c, endpoint, outcome) ==
    IF ~RequestBuilt(c, endpoint) THEN Err(build_url(c, endpoint).err)
    ELSE IF ~outcome.sent THEN Err(ErrRequest("send"))
    ELSE IF is_success(outcome.status)
         THEN IF outcome.decodable THEN Ok(Decoded(outcome.body))
              ELSE Err(ErrRequest("decode"))
    ELSE LET error_text == IF outcome.readable THEN outcome.body ELSE "Unknown error"
         IN  Err(StatusError(outcome.status, error_text))

-----------------------------------------------------------------------------
(* get, post and the retry loop *)

\* CurseForgeClient::get
Get ==
    /\ Idle
    /\ client # NoClient
    /\ \E endpoint \in CallEndpoints : Started("get", [endpoint |-> endpoint])
    /\ result' = None
    /\ pc' = "loop"

\* CurseForgeClient::post
Post ==
    /\ Idle
    /\ client # NoClient
    /\ \E endpoint \in CallEndpoints : Started("post", [endpoint |-> endpoint])
    /\ result' = None
    /\ pc' = "loop"

\* the loop condition, were it strict
LoopCondition_Strict(att, max_retries) == att < max_retries

\* request_with_retry: the loop condition
LoopCondition(att, max_retries) == att <= max_retries

\* the test, were the last retry counted one too early
GiveUp_OffByOne(error, att, max_retries) == ~is_retryable(error) \/ att + 1 = max_retries

\* the test, were the kind of the error not looked at
GiveUp_IgnoresKind(error, att, max_retries) == att = max_retries

\* the test, were the attempt count not looked at
GiveUp_NoCountCheck(error, att, max_retries) == ~is_retryable(error)

\* request_with_retry: the test that ends the loop after a failed attempt
GiveUp(error, att, max_retries) == ~is_retryable(error) \/ att = max_retries

\* request_with_retry: the value returned after the loop
AfterLoop(last) == Err(IF last = None THEN ErrUnknown("Request failed") ELSE last.val)

\* the text its tokens spell
Text[s \in UrlText] == IF s = <<>> THEN "" ELSE s[1] \o Text[Tail(s)]

\* the projects that a body decodes to as PaginatedResponse<Project>: the first
\* sample body holds an empty list, the second a list of two
ProjectList(body) == IF body = "body-a" THEN <<>> ELSE <<"project-1", "project-2">>

\* get_project_by_slug, were it to return the last project of the list
get_project_by_slug_Last(slug, res) ==
    IF res.tag = "Err" THEN res
    ELSE LET data == ProjectList(res.val.data)
         IN  IF data = <<>>
             THEN Err(ErrNotFound("Project with slug '" \o Text[slug] \o "' not found"))
             ELSE Ok(data[Len(data)])

\* get_project_by_slug, from the value that client.get returned
get_project_by_slug(slug, res) ==
    IF res.tag = "Err" THEN res
    ELSE LET data == ProjectList(res.val.data)
         IN  IF data = <<>>
             THEN Err(ErrNotFound("Project with slug '" \o Text[slug] \o "' not found"))
             ELSE Ok(data[1])

\* what the caller of get hands on: get_categories returns the data field of the
\* decoded response, the other callers the response itself
Deliver(name, arg, res) ==
    IF name = "get_categories" /\ res.tag = "Ok" THEN Ok(res.val.data)
    ELSE IF name = "get_project_by_slug" THEN get_project_by_slug(arg.args.slug, res)
    ELSE res

\* the requests built, were a request built once and kept for the later attempts
Invoke_Once(reqs, c, endpoint, pass) ==
    IF reqs = <<>>
    THEN <<[built_in |-> pass, request |-> build_url(c, endpoint), headers |-> c.headers,
            sent_in |-> None]>>
    ELSE reqs

\* make_request: `request_builder(&self.client)?` runs the closure of get or post,
\* which builds the URL and, from it, a new request of the HTTP client, which sends
\* its default headers with it
Invoke(reqs, c, endpoint, pass) ==
    Append(reqs, [built_in |-> pass, request |-> build_url(c, endpoint),
                  headers |-> c.headers, sent_in |-> None])

\* make_request: `request.send()` consumes the request the closure returned, if it
\* returned one
Send(reqs, pass) ==
    [reqs EXCEPT ![Len(reqs)].sent_in = IF reqs[Len(reqs)].request.tag = "Ok"
                                         THEN Some(pass) ELSE None]

\* request_with_retry: one pass of the while loop, up to its return, its break or
\* the start of its sleep
Attempt ==
    /\ pc = "loop"
    /\ UNCHANGED <<client, op, input, file, calls>>
    /\ IF ~LoopCondition(attempt, client.config.max_retries)
       THEN /\ result' = Deliver(op, input, AfterLoop(last_error))
            /\ pc' = "done"
            /\ UNCHANGED <<attempt, last_error, raised, response, events, seen,
                           requests>>
       ELSE \E outcome \in Outcomes :
              \E r \in {make_request(client, input.endpoint, outcome)} :
                  /\ events' = Append(events, [ev |-> "attempt"])
                  /\ requests' = Send(Invoke(requests, client, input.endpoint, attempt),
                                      attempt)
                  /\ seen' = seen \cup {IF r.tag = "Ok" THEN "Ok" ELSE r.err.kind}
                  /\ response' = IF RequestBuilt(client, input.endpoint)
                                  THEN Some(outcome) ELSE None
                  /\ IF r.tag = "Ok"
                     THEN /\ result' = Deliver(op, input, r)
                          /\ pc' = "done"
                          /\ raised' = None
                          /\ UNCHANGED <<attempt, last_error>>
                     ELSE /\ raised' = Some(r.err)
                          /\ last_error' = Some(Clone(r.err))
                          /\ IF GiveUp(r.err, attempt, client.config.max_retries)
                             THEN /\ result' = Deliver(op, input, AfterLoop(Some(Clone(r.err))))
                                  /\ pc' = "done"
                                  /\ UNCHANGED attempt
                             ELSE /\ attempt' = (attempt + 1) % (CounterMax + 1)
                                  /\ pc' = "sleeping"
                                  /\ UNCHANGED result

\* request_with_retry: tokio::time::sleep(self.config.retry_delay) runs to its end
Sleep ==
    /\ pc = "sleeping"
    /\ events' = Append(events, [ev |-> "sleep", delay |-> client.config.retry_delay])
    /\ pc' = "loop"
    /\ UNCHANGED <<client, op, input, attempt, last_error, result, raised, response, seen,
                   file, requests, calls>>

-----------------------------------------------------------------------------
(* upload_file *)

\* const MAX_FILE_SIZE: u64 = 100 * 1024 * 1024
MAX_FILE_SIZE == 104857600

\* the sizes of the files upload_file is given
FileSizes == {0, MAX_FILE_SIZE - 1, MAX_FILE_SIZE, MAX_FILE_SIZE + 1, 2 * MAX_FILE_SIZE}

\* the files upload_file is given: one that cannot be opened, one whose metadata
\* cannot be read, and files of each size
UploadFiles ==
    {[opens |-> FALSE], [opens |-> TRUE, metadata |-> FALSE]}
    \cup {[opens |-> TRUE, metadata |-> TRUE, size |-> n] : n \in FileSizes}

\* the size test, were a file of exactly the limit refused
TooLarge_Inclusive(file_size) == file_size >= MAX_FILE_SIZE

\* upload_file: the size test
TooLarge(file_size) == file_size > MAX_FILE_SIZE

\* the error of a non-2xx response, were upload_file to classify it as make_request does
UploadStatusError_Classified(status, error_text) == StatusError(status, error_text)

\* upload_file: the error of a non-2xx response
UploadStatusError(status, error_text) == ErrUploadFailed(error_text)

\* whether upload_file gets as far as sending its request
UploadSends(c, endpoint, src_file) ==
    /\ src_file.opens
    /\ src_file.metadata
    /\ ~TooLarge(src_file.size)
    /\ build_url(c, endpoint).tag = "Ok"

\* CurseForgeClient::upload_file, given what the send meets
upload_file(c, endpoint, src_file, outcome) ==
    IF ~src_file.opens THEN Err(ErrIo("open"))
    ELSE IF ~src_file.metadata THEN Err(ErrIo("metadata"))
    ELSE IF TooLarge(src_file.size) THEN Err(ErrFileTooLarge(src_file.size, MAX_FILE_SIZE))
    ELSE IF build_url(c, endpoint).tag = "Err" THEN build_url(c, endpoint)
    ELSE IF ~outcome.sent THEN Err(ErrRequest("send"))
    ELSE IF is_success(outcome.status)
         THEN IF outcome.decodable THEN Ok(Decoded(outcome.body))
              ELSE Err(ErrRequest("decode"))
    ELSE LET error_text == IF outcome.readable THEN outcome.body ELSE "Unknown error"
         IN  Err(UploadStatusError(outcome.status, error_text))

\* what upload_file would do, were a send that fails in transport tried again as
\* get and post try it
UploadEvents_Retried(c, sends, outcome) ==
    IF ~sends THEN <<>>
    ELSE IF ~outcome.sent /\ c.config.max_retries > 0
         THEN <<[ev |-> "send"], [ev |-> "sleep", delay |-> c.config.retry_delay],
                [ev |-> "send"]>>
         ELSE <<[ev |-> "send"]>>

\* upload_file: one `.send().await`, outside any loop, once the file is opened and
\* measured and the URL is built
UploadEvents(c, sends, outcome) == IF sends THEN <<[ev |-> "send"]>> ELSE <<>>

UploadFile ==
    /\ Idle
    /\ client # NoClient
    /\ \E endpoint \in CallEndpoints, src_file \in UploadFiles, outcome \in Outcomes :
           LET sends == UploadSends(client, endpoint, src_file)
           IN  /\ op' = "upload_file"
               /\ input' = [endpoint |-> endpoint, file |-> src_file]
               /\ result' = upload_file(client, endpoint, src_file, outcome)
               /\ response' = IF sends THEN Some(outcome) ELSE None
               /\ events' = UploadEvents(client, sends, outcome)
    /\ pc' = "done"
    /\ attempt' = 0
    /\ last_error' = None
    /\ raised' = None
    /\ seen' = {}
    /\ file' = None
    /\ requests' = <<>>
    /\ UNCHANGED <<client, calls>>

-----------------------------------------------------------------------------
(* download_file *)

\* what the send of download_file can meet; the body of a 2xx response is streamed
\* and never decoded
DownloadOutcomes ==
    {o \in Outcomes : o.sent => (~o.decodable /\ (is_success(o.status) => o.readable))}

\* the destination before the call: no file, or a file with content
FilesBefore == {None, Some(<<"old">>)}

\* StatusCode::canonical_reason
canonical_reason(status) ==
    CASE status = 200 -> Some("OK")
      [] status = 302 -> Some("Found")
      [] status = 400 -> Some("Bad Request")
      [] status = 401 -> Some("Unauthorized")
      [] status = 403 -> Some("Forbidden")
      [] status = 404 -> Some("Not Found")
      [] status = 429 -> Some("Too Many Requests")
      [] status = 500 -> Some("Internal Server Error")
      [] OTHER -> None

\* impl Display for StatusCode: the number, a space, the reason phrase
StatusDisplay(status) ==
    ToString(status) \o " "
    \o (IF canonical_reason(status) = None THEN "<unknown status code>"
        ELSE canonical_reason(status).val)

\* download_file up to the start of its streaming loop, were the file created
\* before the status is looked at
download_file_CreateFirst(outcome, createOk, before) ==
    IF ~outcome.sent
    THEN [result |-> Err(ErrRequest("send")), file |-> before, ops |-> <<>>]
    ELSE IF ~createOk
    THEN [result |-> Err(ErrIo("create")), file |-> before,
          ops |-> <<[ev |-> "create failed"]>>]
    ELSE IF ~is_success(outcome.status)
    THEN LET text == IF outcome.readable THEN outcome.body ELSE "Unknown error"
         IN  [result |-> Err(ErrDownloadFailed(
                             "HTTP " \o StatusDisplay(outcome.status) \o ": " \o text)),
              file |-> Some(<<>>), ops |-> <<[ev |-> "create"]>>]
    ELSE [result |-> None, file |-> Some(<<>>), ops |-> <<[ev |-> "create"]>>]

\* CurseForgeClient::download_file up to the start of its streaming loop: what it
\* returns (None when it goes on to stream), the destination file, and the file
\* operations it made.  createOk: whether File::create succeeds
download_file(outcome, createOk, before) ==
    IF ~outcome.sent
    THEN [result |-> Err(ErrRequest("send")), file |-> before, ops |-> <<>>]
    ELSE IF ~is_success(outcome.status)
    THEN LET text == IF outcome.readable THEN outcome.body ELSE "Unknown error"
         IN  [result |-> Err(ErrDownloadFailed(
                             "HTTP " \o StatusDisplay(outcome.status) \o ": " \o text)),
              file |-> before, ops |-> <<>>]
    ELSE IF ~createOk
    THEN [result |-> Err(ErrIo("create")), file |-> before,
          ops |-> <<[ev |-> "create failed"]>>]
    ELSE [result |-> None, file |-> Some(<<>>), ops |-> <<[ev |-> "create"]>>]

DownloadFile ==
    /\ Idle
    /\ client # NoClient
    /\ \E outcome \in DownloadOutcomes, createOk \in BOOLEAN, before \in FilesBefore :
           LET d == download_file(outcome, createOk, before)
           IN  /\ op' = "download_file"
               /\ input' = [url |-> "url", before |-> before]
               /\ response' = Some(outcome)
               /\ events' = <<[ev |-> "send"]>> \o d.ops
               /\ file' = d.file
               /\ result' = d.result
               /\ pc' = IF d.result = None THEN "streaming" ELSE "done"
    /\ attempt' = 0
    /\ last_error' = None
    /\ raised' = None
    /\ seen' = {}
    /\ requests' = <<>>
    /\ UNCHANGED <<client, calls>>

\* download_file: one pass of `while let Some(chunk) = stream.next().await`, or
\* its end
WriteChunk ==
    /\ pc = "streaming"
    /\ UNCHANGED <<client, op, input, attempt, last_error, raised, response, seen,
                   requests, calls>>
    /\ \/ \* the stream has ended
          /\ result' = Ok("()")
          /\ pc' = "done"
          /\ UNCHANGED <<file, events>>
       \/ \* the stream fails
          /\ result' = Err(ErrRequest("body"))
          /\ pc' = "done"
          /\ UNCHANGED <<file, events>>
       \/ \* a chunk arrives and is written
          /\ Len(file.val) < MaxChunks
          /\ file' = Some(Append(file.val, "chunk"))
          /\ events' = Append(events, [ev |-> "write"])
          /\ UNCHANGED <<result, pc>>
       \/ \* a chunk arrives and write_all fails, after writing none or a part of it
          /\ Len(file.val) < MaxChunks
          /\ \E partial \in BOOLEAN :
                 file' = IF partial THEN Some(Append(file.val, "part")) ELSE file
          /\ events' = Append(events, [ev |-> "write failed"])
          /\ result' = Err(ErrIo("write"))
          /\ pc' = "done"

-----------------------------------------------------------------------------
(* Endpoint helpers: search, project files, categories *)

\* u32::min, were it to keep its receiver
min_KeepsReceiver(a, b) == a

\* u32::min
min(a, b) == IF a <= b THEN a ELSE b

\* Option::map(|l| l.min(50))
ClampLimit(limit) == IF limit = None THEN None ELSE Some(min(limit.val, 50))

\* game_id.or(Some(432))
OrMinecraft(game_id) == IF game_id = None THEN Some(432) ELSE game_id

\* str::to_lowercase, token by token
LowerToken(t) ==
    CASE t = "sortField=" -> "sortfield="
      [] t = "sortOrder=" -> "sortorder="
      [] t = "modLoaderType=" -> "modloadertype="
      [] t = "Relevance" -> "relevance"
      [] t = "Popularity" -> "popularity"
      [] t = "LastUpdated" -> "lastupdated"
      [] t = "Desc" -> "desc"
      [] t = "Forge" -> "forge"
      [] OTHER -> t

to_lowercase(text) == [i \in 1..Len(text) |-> LowerToken(text[i])]

\* format!("name={}", n) for an optional number: no parameter when it is None
NumberParam(name, field) ==
    IF field = None THEN <<>> ELSE << <<name, ToString(field.val)>> >>

\* format!("name={}", text) for an optional string
TextParam(name, field) ==
    IF field = None THEN <<>> ELSE << <<name>> \o field.val >>

\* format!("name={:?}", variant).to_lowercase() for an optional enum value
DebugParam(name, field) ==
    IF field = None THEN <<>> ELSE << to_lowercase(<<name, field.val>>) >>

\* params.join("&")
Join[params \in Seq(UrlText)] ==
    IF params = <<>> THEN <<>>
    ELSE IF Len(params) = 1 THEN params[1]
    ELSE params[1] \o <<"&">> \o Join[Tail(params)]

\* the endpoint followed by "?" and the joined parameters, when there are any
WithParams(endpoint, params) ==
    IF params = <<>> THEN endpoint ELSE endpoint \o <<"?">> \o Join[params]

\* impl Default for SearchRequest
DefaultSearchRequest ==
    [game_id |-> None, class_id |-> None, category_id |-> None, game_version |-> None,
     search_filter |-> None, sort_field |-> None, sort_order |-> None,
     mod_loader_type |-> None, game_version_type_id |-> None, author_id |-> None,
     slug |-> None, index |-> None, page_size |-> None]

\* search_projects: the endpoint it requests
search_projects_endpoint(request) ==
    WithParams(<<"/", "mods", "/", "search">>,
               NumberParam("gameId=", request.game_id)
               \o NumberParam("classId=", request.class_id)
               \o NumberParam("categoryId=", request.category_id)
               \o TextParam("gameVersion=", request.game_version)
               \o TextParam("searchFilter=", request.search_filter)
               \o DebugParam("sortField=", request.sort_field)
               \o DebugParam("sortOrder=", request.sort_order)
               \o DebugParam("modLoaderType=", request.mod_loader_type)
               \o NumberParam("gameVersionTypeId=", request.game_version_type_id)
               \o NumberParam("authorId=", request.author_id)
               \o TextParam("slug=", request.slug)
               \o NumberParam("index=", request.index)
               \o NumberParam("pageSize=", ClampLimit(request.page_size)))

\* get_project_files: the endpoint it requests
get_project_files_endpoint(project_id, game_version, loader, type_id, index, page_size) ==
    WithParams(<<"/", "mods", "/", ToString(project_id), "/", "files">>,
               TextParam("gameVersion=", game_version)
               \o TextParam("modLoaderType=", loader)
               \o NumberParam("gameVersionTypeId=", type_id)
               \o NumberParam("index=", index)
               \o NumberParam("pageSize=", ClampLimit(page_size)))

\* get_categories: the endpoint it requests
get_categories_endpoint(game_id) ==
    <<"/", "categories">>
    \o (IF game_id = None THEN <<>> ELSE <<"?", "gameId=", ToString(game_id.val)>>)

\* the game ids and the limits the helpers are called with
GameIdArgs == {None, Some(432), Some(1)}
LimitArgs == {None} \cup {Some(n) : n \in {0, 50, 51, 100}}

\* the requests search_projects is called with: page size and game id alone, and
\* one with every field set
SearchRequests ==
    {[DefaultSearchRequest EXCEPT !.game_id = g, !.page_size = l] :
         g \in {None, Some(432)}, l \in LimitArgs}
    \cup {[game_id |-> Some(432), class_id |-> Some(1), category_id |-> Some(2),
           game_version |-> Some(<<"1.20">>), search_filter |-> Some(<<"test">>),
           sort_field |-> Some("Popularity"), sort_order |-> Some("Desc"),
           mod_loader_type |-> Some("Forge"), game_version_type_id |-> Some(3),
           author_id |-> Some(7), slug |-> Some(<<"jei">>), index |-> Some(0),
           page_size |-> Some(20)]}

\* a helper calls client.get(&endpoint): the retry loop starts
GetEndpoint(name, arg) ==
    /\ Started(name, arg)
    /\ result' = None
    /\ pc' = "loop"

\* a search helper builds its request and calls search_projects
SearchWith(name, arg, request) ==
    GetEndpoint(name, [args |-> arg, request |-> request,
                       endpoint |-> search_projects_endpoint(request)])

SearchProjects ==
    /\ Idle
    /\ client # NoClient
    /\ \E request \in SearchRequests :
           GetEndpoint("search_projects",
                       [request |-> request, endpoint |-> search_projects_endpoint(request)])

SearchProjectsSimple ==
    /\ Idle
    /\ client # NoClient
    /\ \E game_id \in GameIdArgs, limit \in LimitArgs :
           SearchWith("search_projects_simple",
                      [search_filter |-> <<"test">>, game_id |-> game_id, limit |-> limit],
                      [DefaultSearchRequest EXCEPT
                           !.game_id = OrMinecraft(game_id),
                           !.search_filter = Some(<<"test">>),
                           !.page_size = ClampLimit(limit),
                           !.sort_field = Some("Relevance"),
                           !.sort_order = Some("Desc")])

SearchProjectsByCategory ==
    /\ Idle
    /\ client # NoClient
    /\ \E game_id \in GameIdArgs, limit \in LimitArgs :
           SearchWith("search_projects_by_category",
                      [category_id |-> 7, game_id |-> game_id, limit |-> limit],
                      [DefaultSearchRequest EXCEPT
                           !.game_id = OrMinecraft(game_id),
                           !.category_id = Some(7),
                           !.page_size = ClampLimit(limit),
                           !.sort_field = Some("Popularity"),
                           !.sort_order = Some("Desc")])

SearchProjectsByAuthor ==
    /\ Idle
    /\ client # NoClient
    /\ \E game_id \in GameIdArgs, limit \in LimitArgs :
           SearchWith("search_projects_by_author",
                      [author_id |-> 7, game_id |-> game_id, limit |-> limit],
                      [DefaultSearchRequest EXCEPT
                           !.game_id = OrMinecraft(game_id),
                           !.author_id = Some(7),
                           !.page_size = ClampLimit(limit),
                           !.sort_field = Some("LastUpdated"),
                           !.sort_order = Some("Desc")])

SearchProjectsByGameVersion ==
    /\ Idle
    /\ client # NoClient
    /\ \E game_id \in GameIdArgs, limit \in LimitArgs :
           SearchWith("search_projects_by_game_version",
                      [game_version |-> <<"1.20">>, game_id |-> game_id, limit |-> limit],
                      [DefaultSearchRequest EXCEPT
                           !.game_id = OrMinecraft(game_id),
                           !.game_version = Some(<<"1.20">>),
                           !.page_size = ClampLimit(limit),
                           !.sort_field = Some("Popularity"),
                           !.sort_order = Some("Desc")])

SearchProjectsByModLoader ==
    /\ Idle
    /\ client # NoClient
    /\ \E game_id \in GameIdArgs, limit \in LimitArgs :
           SearchWith("search_projects_by_mod_loader",
                      [mod_loader_type |-> "Forge", game_id |-> game_id, limit |-> limit],
                      [DefaultSearchRequest EXCEPT
                           !.game_id = OrMinecraft(game_id),
                           !.mod_loader_type = Some("Forge"),
                           !.page_size = ClampLimit(limit),
                           !.sort_field = Some("Popularity"),
                           !.sort_order = Some("Desc")])

GetProjectFiles ==
    /\ Idle
    /\ client # NoClient
    /\ \E game_version \in {None, Some(<<"1.20">>)}, page_size \in LimitArgs :
           GetEndpoint("get_project_files",
                       [args |-> [project_id |-> 7, game_version |-> game_version,
                                  page_size |-> page_size],
                        endpoint |-> get_project_files_endpoint(7, game_version, None, None,
                                                                Some(0), page_size)])

GetCategories ==
    /\ Idle
    /\ client # NoClient
    /\ \E game_id \in GameIdArgs :
           GetEndpoint("get_categories",
                       [args |-> [game_id |-> game_id],
                        endpoint |-> get_categories_endpoint(game_id)])

\* the slugs get_project_by_slug is called with
Slugs == {<<"jei">>, <<"test">>}

\* get_project_by_slug: the endpoint it requests
get_project_by_slug_endpoint(slug) ==
    <<"/", "mods", "/", "search", "?", "gameId=", "432", "&", "slug=">> \o slug

GetProjectBySlug ==
    /\ Idle
    /\ client # NoClient
    /\ \E slug \in Slugs :
           GetEndpoint("get_project_by_slug",
                       [args |-> [slug |-> slug],
                        endpoint |-> get_project_by_slug_endpoint(slug)])

-----------------------------------------------------------------------------
(* get and post calls that run at the same time on one client *)

\* request_with_retry run from its start to its return on the answers its sends
\* meet, in order: the value it returns (None when the answers run out before it
\* returns) and the number of attempts it makes
request_with_retry(c, endpoint, outcomes) ==
    LET max_retries == c.config.max_retries
        last(i) == IF i = 1 THEN None
                   ELSE Some(Clone(make_request(c, endpoint, outcomes[i - 1]).err))
        run[i \in 1..(Len(outcomes) + 1), att \in 0..CounterMax] ==
            IF ~LoopCondition(att, max_retries)
            THEN [result |-> AfterLoop(last(i)), attempts |-> i - 1]
            ELSE IF i > Len(outcomes) THEN [result |-> None, attempts |-> i - 1]
            ELSE LET r == make_request(c, endpoint, outcomes[i])
                 IN  IF r.tag = "Ok" THEN [result |-> r, attempts |-> i]
                     ELSE IF GiveUp(r.err, att, max_retries)
                          THEN [result |-> AfterLoop(Some(Clone(r.err))), attempts |-> i]
                          ELSE run[i + 1, (att + 1) % (CounterMax + 1)]
    IN  run[1, 0]

\* the callers that hold a shared reference (&self) to the client
Callers == {1, 2}

\* what the sends of these calls meet: a transport failure, a decodable 200, a 404
\* or a 429
SharedOutcomes ==
    {o \in Outcomes : \/ ~o.sent
                      \/ /\ o.body = "body-a"
                         /\ o.readable
                         /\ o.status \in {200, 404, 429}
                         /\ o.decodable <=> is_success(o.status)}

\* a caller that is not in a call
NoCall ==
    [pc |-> "idle", op |-> "none", endpoint |-> <<>>, attempt |-> 0, last_error |-> None,
     result |-> None, log |-> <<>>]

\* the state of the operation that runs alone
single ==
    <<client, op, input, pc, attempt, last_error, result, raised, response, events, seen,
      file, requests>>

\* the attempt counter, were it a field shared by the calls
OwnAttempt_Shared(cs, who) == cs[1].attempt

\* request_with_retry: `let mut attempt = 0`, a local of each call
OwnAttempt(cs, who) == cs[who].attempt

\* a caller calls get or post on the shared client
CallStart ==
    /\ Idle
    /\ client # NoClient
    /\ \E who \in Callers, name \in {"get", "post"}, endpoint \in CallEndpoints :
           /\ calls[who].pc = "idle"
           /\ calls' = [calls EXCEPT ![who] = [NoCall EXCEPT !.pc = "loop", !.op = name,
                                                             !.endpoint = endpoint]]
    /\ UNCHANGED single

\* request_with_retry of one caller: one pass of the while loop
CallAttempt ==
    /\ \E who \in Callers :
           LET call == calls[who]
               att == OwnAttempt(calls, who)
               max_retries == client.config.max_retries
           IN  /\ call.pc = "loop"
               /\ IF ~LoopCondition(att, max_retries)
                  THEN calls' = [calls EXCEPT ![who].result = AfterLoop(call.last_error),
                                              ![who].pc = "done"]
                  ELSE \E outcome \in SharedOutcomes :
                         \E r \in {make_request(client, call.endpoint, outcome)} :
                           \E stop \in {r.tag = "Ok" \/ GiveUp(r.err, att, max_retries)} :
                             calls' = [calls EXCEPT ![who] =
                                 [call EXCEPT
                                     !.log = Append(@, outcome),
                                     !.last_error = IF r.tag = "Ok" THEN @
                                                    ELSE Some(Clone(r.err)),
                                     !.result = IF r.tag = "Ok" THEN r
                                                ELSE IF stop
                                                     THEN AfterLoop(Some(Clone(r.err)))
                                                     ELSE @,
                                     !.pc = IF stop THEN "done" ELSE "sleeping",
                                     !.attempt = IF stop THEN @
                                                 ELSE (att + 1) % (CounterMax + 1)]]
    /\ UNCHANGED single

\* request_with_retry of one caller: its sleep runs to its end
CallSleep ==
    /\ \E who \in Callers :
           /\ calls[who].pc = "sleeping"
           /\ calls' = [calls EXCEPT ![who].pc = "loop"]
    /\ UNCHANGED single

\* a caller has taken the result of its call
CallReturn ==
    /\ \E who \in Callers :
           /\ calls[who].pc = "done"
           /\ calls' = [calls EXCEPT ![who] = NoCall]
    /\ UNCHANGED single

-----------------------------------------------------------------------------
Init ==
    /\ client = NoClient
    /\ op = "none"
    /\ input = None
    /\ pc = "idle"
    /\ attempt = 0
    /\ last_error = None
    /\ result = None
    /\ raised = None
    /\ response = None
    /\ events = <<>>
    /\ seen = {}
    /\ file = None
    /\ requests = <<>>
    /\ calls = [who \in Callers |-> NoCall]

Next ==
    \/ New
    \/ WithConfig
    \/ BuildUrl
    \/ Get
    \/ Post
    \/ Attempt
    \/ Sleep
    \/ IsRetryable
    \/ CloneError
    \/ StatusCode
    \/ UploadFile
    \/ DownloadFile
    \/ WriteChunk
    \/ Return

Spec == Init /\ [][Next]_vars

\* the endpoint helpers, called on a client made by new
ApiNext ==
    \/ New
    \/ SearchProjects
    \/ SearchProjectsSimple
    \/ SearchProjectsByCategory
    \/ SearchProjectsByAuthor
    \/ SearchProjectsByGameVersion
    \/ SearchProjectsByModLoader
    \/ GetProjectFiles
    \/ GetCategories
    \/ GetProjectBySlug
    \/ Attempt
    \/ Sleep
    \/ Return

ApiSpec == Init /\ [][ApiNext]_vars

\* construction, get and post
RetryNext ==
    \/ New
    \/ WithConfig
    \/ Get
    \/ Post
    \/ Attempt
    \/ Sleep
    \/ Return

\* get and post calls that keep running once under way: their attempts return and
\* their sleeps end
FairSpec == Init /\ [][RetryNext]_vars /\ WF_vars(Attempt) /\ WF_vars(Sleep)

\* two callers run get and post calls at the same time on a client made by new
SharedNext ==
    \/ New
    \/ Return
    \/ CallStart
    \/ CallAttempt
    \/ CallSleep
    \/ CallReturn

SharedSpec == Init /\ [][SharedNext]_vars

\* get and post on a client made by new whose configuration is written through
\* config_mut between the calls
ConfigNext ==
    \/ New
    \/ ConfigMut
    \/ Get
    \/ Post
    \/ Attempt
    \/ Sleep
    \/ Return

ConfigSpec == Init /\ [][ConfigNext]_vars

-----------------------------------------------------------------------------
(* Properties *)

\* a get or post call has been started
InCall == op \in {"get", "post"}

\* a get or post call has returned
Returned == InCall /\ pc = "done"

\* the numbers of attempts and of sleeps of the call so far
Attempts == Cardinality({i \in 1..Len(events) : events[i].ev = "attempt"})
Sleeps == Cardinality({i \in 1..Len(events) : events[i].ev = "sleep"})

\* the error kinds the specification calls retryable
RetryableKinds == {"Request", "Timeout", "RateLimitExceeded"}

C2_TerminalErrorOneAttempt ==
    (InCall /\ Attempts = 1 /\ seen # {} /\ seen \cap (RetryableKinds \cup {"Ok"}) = {}) =>
        /\ pc = "done"
        /\ events = <<[ev |-> "attempt"]>>
        /\ Sleeps = 0
        /\ result.tag = "Err"

\* a call with retries left returned after one attempt that met a 404
C2_Witness ==
    /\ Returned
    /\ client.config.max_retries > 0
    /\ seen = {"NotFound"}
    /\ Attempts = 1

\* C3: an attempt that receives a 2xx response whose body cannot be decoded ends
\* the call: no sleep and no further attempt follows it, even when max_retries > 0.
C3_DecodeFailureIsTerminal ==
    (InCall /\ response.tag = "Some" /\ response.val.sent
       /\ response.val.status \in 200..299 /\ ~response.val.decodable) =>
        pc = "done"

\* the text make_request puts into the error of a non-2xx response: the body, or
\* "Unknown error" when the body cannot be read
ErrorText(resp) == IF resp.readable THEN resp.body ELSE "Unknown error"

\* C4: the error of an attempt that received a non-2xx response is decided by the
\* status: 401 -> AuthenticationRequired, 403 -> PermissionDenied(body),
\* 404 -> NotFound(body), 429 -> RateLimitExceeded, any other 4xx ->
\* InvalidParameters(body), 5xx -> Api{status, body}; and a call that met a 5xx
\* response returns that Api error with the status and the body text.
C4_StatusClassification ==
    (InCall /\ response.tag = "Some" /\ response.val.sent
       /\ response.val.status \notin 200..299) =>
        LET st == response.val.status
            text == ErrorText(response.val)
        IN  /\ raised.tag = "Some"
            /\ st = 401 => raised.val = [kind |-> "AuthenticationRequired"]
            /\ st = 403 => raised.val = [kind |-> "PermissionDenied", msg |-> text]
            /\ st = 404 => raised.val = [kind |-> "NotFound", msg |-> text]
            /\ st = 429 => raised.val = [kind |-> "RateLimitExceeded"]
            /\ (st \in 400..499 /\ st \notin {401, 403, 404, 429}) =>
                   raised.val = [kind |-> "InvalidParameters", msg |-> text]
            /\ st \in 500..599 =>
                   /\ raised.val = [kind |-> "Api", status |-> st, message |-> text]
                   /\ pc = "done"
                   /\ result = Err([kind |-> "Api", status |-> st, message |-> text])

\* a call met a 500 response with a readable body and returned Api{500, body}
C4_Witness ==
    /\ Returned
    /\ response.tag = "Some"
    /\ response.val.sent
    /\ response.val.status = 500
    /\ response.val.readable
    /\ result = Err(ErrApi(500, response.val.body))

\* C5: is_retryable is true exactly for the kinds Request, Timeout and
\* RateLimitExceeded; get/post never retry after an error of another kind (5xx Api
\* errors, 401, 403, 404, other 4xx), and stop retrying a retryable one only when
\* the retries are used up.
C5_RetryableExactly ==
    /\ (op = "is_retryable" /\ pc = "done") =>
           result = Ok(input.error.kind \in RetryableKinds)
    /\ (InCall /\ raised.tag = "Some" /\ raised.val.kind \notin RetryableKinds) =>
           /\ pc = "done"
           /\ result.tag = "Err"
    /\ (InCall /\ pc = "sleeping") =>
           /\ raised.tag = "Some"
           /\ raised.val.kind \in RetryableKinds
    /\ (Returned /\ raised.tag = "Some" /\ raised.val.kind \in RetryableKinds) =>
           Attempts = client.config.max_retries + 1

\* a call with retries left met a 500 response and returned after that one attempt
C5_Witness ==
    /\ Returned
    /\ client.config.max_retries > 0
    /\ raised.tag = "Some"
    /\ raised.val.kind = "Api"
    /\ raised.val.status = 500
    /\ Attempts = 1

\* C6: every get/post call ends with exactly one outcome, a decoded payload or an
\* error, after at most max_retries + 1 attempts, for every max_retries of the
\* counter's range, 0 and the largest value included; the attempt counter never
\* exceeds max_retries (so it never wraps around), nothing is returned before the
\* call ends, and a call that has ended does nothing more.
C6_OneOutcome ==
    /\ [](InCall =>
            /\ attempt <= client.config.max_retries
            /\ Attempts <= client.config.max_retries + 1
            /\ Attempts = attempt + (IF pc = "done" THEN 1 ELSE 0)
            /\ pc # "done" => result = None
            /\ pc = "done" => result.tag \in {"Ok", "Err"})
    /\ [][(InCall /\ pc = "done") => (pc' = "idle" /\ op' = "none")]_vars
    /\ ((InCall /\ pc # "done") ~> (InCall /\ pc = "done"))

\* a call of a client whose max_retries is the largest value of the counter used
\* every retry and returned an error
C6_Witness ==
    /\ Returned
    /\ client.config.max_retries = CounterMax
    /\ attempt = CounterMax
    /\ Attempts = CounterMax + 1
    /\ result.tag = "Err"

\* a construction (new or with_config) has returned
Constructing == op \in {"new", "with_config"} /\ pc = "done"

\* the configuration the construction was given: new passes the defaults and its key
GivenConfig ==
    IF op = "new"
    THEN [api_key |-> input.api_key,
          base_url |-> <<"https://", "api.curseforge.com", "/", "v1">>,
          timeout |-> 30,
          user_agent |-> DefaultUserAgent,
          max_retries |-> 3,
          retry_delay |-> 1]
    ELSE input.config

\* C7: construction with an empty API key, by new or by with_config, fails with
\* InvalidApiKey and creates no client, whatever the other configuration fields are.
C7_EmptyKeyRejected ==
    (Constructing /\ GivenConfig.api_key = <<>>) =>
        /\ result = Err([kind |-> "InvalidApiKey"])
        /\ client = NoClient

\* with_config was given an empty key in a configuration that differs from the
\* defaults in its other fields, and failed
C7_Witness ==
    /\ Constructing
    /\ op = "with_config"
    /\ input.config.api_key = <<>>
    /\ input.config.base_url # DefaultBaseUrl
    /\ input.config.max_retries = 0
    /\ input.config.user_agent # DefaultUserAgent
    /\ input.transport
    /\ result = Err(ErrInvalidApiKey)

\* C8, as stated: construction with any valid non-empty API key succeeds, the
\* client's config().api_key is the key passed in, and new fills the other fields
\* with the defaults.
C8_ValidKeyAlwaysConstructs ==
    (Constructing /\ GivenConfig.api_key # <<>> /\ HeaderValueOk(GivenConfig.api_key)) =>
        /\ result.tag = "Ok"
        /\ client # NoClient
        /\ client.config = GivenConfig

\* C8, amended: construction with a valid non-empty API key succeeds whenever the
\* user agent is a valid header value (new always passes the default one, which
\* is) and the HTTP transport can be built; the client's configuration is then the
\* one given, its api_key the key passed in, and for new every other field the
\* default.
C8_ValidKeyConstructs ==
    (Constructing /\ GivenConfig.api_key # <<>> /\ HeaderValueOk(GivenConfig.api_key)
       /\ (op = "with_config" => HeaderValueOk(input.config.user_agent))
       /\ input.transport) =>
        /\ result.tag = "Ok"
        /\ client # NoClient
        /\ client.config = GivenConfig

\* new was given a valid key and returned a client holding it and the defaults
C8_Witness ==
    /\ Constructing
    /\ op = "new"
    /\ input.api_key = <<65, 65>>
    /\ result.tag = "Ok"
    /\ client # NoClient
    /\ client.config.api_key = <<65, 65>>
    /\ client.config.max_retries = 3

\* C9, as stated: construction fails with InvalidApiKey whenever the API key or the
\* user agent cannot be encoded into a valid header value.
C9_BadHeaderIsInvalidApiKey ==
    (Constructing /\ (~HeaderValueOk(GivenConfig.api_key)
                        \/ ~HeaderValueOk(GivenConfig.user_agent))) =>
        result = Err([kind |-> "InvalidApiKey"])

\* C9, amended: construction fails with InvalidApiKey whenever the API key cannot
\* be encoded into a valid header value; when the key is non-empty and can be
\* encoded but the user agent cannot, it fails with InvalidParameters("Invalid
\* user agent").  No client is created in either case.
C9_BadHeaderRejected ==
    /\ (Constructing /\ ~HeaderValueOk(GivenConfig.api_key)) =>
           /\ result = Err([kind |-> "InvalidApiKey"])
           /\ client = NoClient
    /\ (Constructing /\ GivenConfig.api_key # <<>> /\ HeaderValueOk(GivenConfig.api_key)
          /\ ~HeaderValueOk(GivenConfig.user_agent)) =>
           /\ result = Err([kind |-> "InvalidParameters", msg |-> "Invalid user agent"])
           /\ client = NoClient

\* with_config was given a valid key and a user agent with a line feed in it, and
\* failed with InvalidParameters
C9_Witness ==
    /\ Constructing
    /\ op = "with_config"
    /\ input.config.api_key = <<65>>
    /\ input.config.user_agent = <<65, 10>>
    /\ result = Err(ErrInvalidParameters("Invalid user agent"))
    /\ client = NoClient

\* build_url has returned
UrlBuilt == op = "build_url" /\ pc = "done"

\* the endpoint has a "." or ".." path segment
HasDotSegment(e) ==
    \E i \in 1..Len(e) : \E j \in i..Len(e) :
        /\ j - i <= 1
        /\ \A k \in i..j : e[k] = "."
        /\ i = 1 \/ e[i - 1] = "/"
        /\ j = Len(e) \/ e[j + 1] = "/"

\* the endpoint has a space in it
HasSpace(e) == \E i \in 1..Len(e) : e[i] = " "

C11_InvalidUrlIsUrlError ==
    (Returned /\ UrlParse(client.config.base_url \o input.endpoint).tag = "Err") =>
        /\ result.tag = "Err"
        /\ result.err.kind = "Url"
        /\ response = None
        /\ Attempts = 1
        /\ Sleeps = 0

\* C12: every error a get/post call returns is the error its final attempt raised,
\* with the same kind and the same payload.
C12_ErrorsPropagateUnchanged ==
    (Returned /\ raised.tag = "Some") => result = Err(raised.val)

\* the kinds whose payload is an error of another library, which cannot be copied
DeepCauseKinds == {"Request", "Json", "Url", "Io"}

\* the text Unknown carries in place of an error of a deep-cause kind
NotCloneableText(kind) ==
    CASE kind = "Request" -> "Request error (not cloneable)"
      [] kind = "Json" -> "JSON error (not cloneable)"
      [] kind = "Url" -> "URL error (not cloneable)"
      [] kind = "Io" -> "IO error (not cloneable)"

\* the normalised form of an error
Normalised(e) ==
    IF e.kind \in DeepCauseKinds
    THEN [kind |-> "Unknown", msg |-> NotCloneableText(e.kind)]
    ELSE e

\* C13: clone keeps kind and payload of every error whose kind carries only a
\* status, strings or numbers, and turns exactly the errors of kind Request, Json,
\* Url and Io into Unknown with a text that names the kind; the error a get/post
\* call returns is this normalised form of the error its final attempt raised.
C13_CloneNormalises ==
    /\ (op = "clone" /\ pc = "done") => result = Ok(Normalised(input.error))
    /\ (op = "clone" /\ pc = "done" /\ input.error.kind \notin DeepCauseKinds) =>
           result = Ok(input.error)
    /\ (op = "clone" /\ pc = "done" /\ input.error.kind \in DeepCauseKinds) =>
           /\ result.val.kind = "Unknown"
           /\ result.val # input.error
    /\ (Returned /\ raised.tag = "Some") => result = Err(Normalised(raised.val))

\* a call retried after transport failures, gave up on one, and returned Unknown
\* in place of the Request error of its last attempt
C13_Witness ==
    /\ Returned
    /\ Attempts > 1
    /\ raised.tag = "Some"
    /\ raised.val = ErrRequest("send")
    /\ result = Err(ErrUnknown("Request error (not cloneable)"))

\* C14: the error a get/post call returns after a non-2xx response yields that
\* status from status_code(), whatever the status is.
C14_StatusCodeOfEveryStatusError ==
    (Returned /\ response.tag = "Some" /\ response.val.sent
       /\ response.val.status \notin 200..299 /\ result.tag = "Err") =>
        status_code(result.err) = Some(response.val.status)

\* upload_file has returned
Uploaded == op = "upload_file" /\ pc = "done"

\* C15: upload_file on a file of more than 104857600 bytes fails with
\* FileTooLarge{size = the size of the file, max = 104857600} and sends no
\* request; a file of 104857600 bytes or fewer passes the size test, and its
\* request is sent (whenever the base URL and the endpoint form a URL).
C15_OversizedUploadRejectedFirst ==
    (Uploaded /\ input.file.opens /\ input.file.metadata) =>
        /\ input.file.size > 104857600 =>
               /\ result = Err([kind |-> "FileTooLarge", size |-> input.file.size,
                                max |-> 104857600])
               /\ response = None
               /\ events = <<>>
        /\ input.file.size <= 104857600 =>
               /\ ~(result.tag = "Err" /\ result.err.kind = "FileTooLarge")
               /\ UrlParse(client.config.base_url \o input.endpoint).tag = "Ok" =>
                      (response.tag = "Some" /\ events = <<[ev |-> "send"]>>)

\* a file one byte over the limit was refused before anything was sent
C15_Witness ==
    /\ Uploaded
    /\ input.file.opens
    /\ input.file.metadata
    /\ input.file.size = 104857601
    /\ result = Err(ErrFileTooLarge(104857601, 104857600))
    /\ response = None

\* C18: upload_file returns the decoded response when the server answers 2xx (with
\* a body that decodes), and UploadFailed with the text of the response body for
\* every other status, 401, 403, 404, 429 and 5xx included.
C18_UploadResult ==
    (Uploaded /\ response.tag = "Some" /\ response.val.sent) =>
        /\ (response.val.status \in 200..299 /\ response.val.decodable) =>
               result = Ok([data |-> response.val.body])
        /\ response.val.status \notin 200..299 =>
               result = Err([kind |-> "UploadFailed", msg |-> ErrorText(response.val)])

\* an upload answered 404 returned UploadFailed with the body, not NotFound
C18_Witness ==
    /\ Uploaded
    /\ response.tag = "Some"
    /\ response.val.sent
    /\ response.val.status = 404
    /\ response.val.readable
    /\ result = Err(ErrUploadFailed(response.val.body))

\* download_file has received a response with a non-2xx status
DownloadRefused ==
    /\ op = "download_file"
    /\ response.tag = "Some"
    /\ response.val.sent
    /\ response.val.status \notin 200..299

\* C16: download_file, when the response status is non-2xx, returns
\* DownloadFailed("HTTP <status>: <body text>") and has not created, truncated or
\* written the destination file: the file is as it was before the call.
C16_RefusedDownloadLeavesFile ==
    DownloadRefused =>
        /\ pc = "done"
        /\ result.tag = "Err"
        /\ result.err.kind = "DownloadFailed"
        /\ result.err.msg = "HTTP " \o StatusDisplay(response.val.status) \o ": "
                               \o ErrorText(response.val)
        /\ file = input.before
        /\ events = <<[ev |-> "send"]>>

\* a download to a path that held a file was answered 404; the file is untouched
C16_Witness ==
    /\ DownloadRefused
    /\ response.val.status = 404
    /\ response.val.body = "body-a"
    /\ response.val.readable
    /\ input.before = Some(<<"old">>)
    /\ file = Some(<<"old">>)
    /\ result = Err(ErrDownloadFailed("HTTP 404 Not Found: body-a"))

\* the last thing the call did was a file operation that failed
FileOperationFailed ==
    /\ events # <<>>
    /\ events[Len(events)].ev \in {"create failed", "write failed"}

\* C17: download_file fails with DownloadFailed when the response status is
\* non-2xx and when creating or writing the destination file fails.
C17_DownloadErrorsAreDownloadFailed ==
    (op = "download_file" /\ pc = "done" /\ (DownloadRefused \/ FileOperationFailed)) =>
        /\ result.tag = "Err"
        /\ result.err.kind = "DownloadFailed"

\* the search helpers that take a game id and a limit
SearchHelpers ==
    {"search_projects_simple", "search_projects_by_category", "search_projects_by_author",
     "search_projects_by_game_version", "search_projects_by_mod_loader"}

\* a helper has sent a request; the URL it was sent to
HelperSent(names) == op \in names /\ response.tag = "Some"
SentUrl == UrlParse(client.config.base_url \o input.endpoint).val

\* the places of a parameter in a URL, and whether it is there with a value
ParamPlaces(url, name) == {i \in 1..Len(url) : url[i] = name}
HasParam(url, name, value) ==
    \E i \in ParamPlaces(url, name) : i < Len(url) /\ url[i + 1] = value

\* the page size or limit the caller asked for
RequestedLimit ==
    IF op = "search_projects" THEN input.request.page_size
    ELSE IF op = "get_project_files" THEN input.args.page_size
    ELSE input.args.limit

\* C19: search_projects, the search_projects_* helpers and get_project_files send
\* pageSize = min(requested, 50), once, for every requested page size or limit, and
\* no pageSize parameter when none was requested; the helpers' limit, clamped by
\* the helper and again by search_projects, is sent as if clamped once.
C19_PageSizeClamped ==
    HelperSent(SearchHelpers \cup {"search_projects", "get_project_files"}) =>
        IF RequestedLimit = None
        THEN ParamPlaces(SentUrl, "pageSize=") = {}
        ELSE /\ Cardinality(ParamPlaces(SentUrl, "pageSize=")) = 1
             /\ HasParam(SentUrl, "pageSize=",
                         ToString(IF RequestedLimit.val <= 50 THEN RequestedLimit.val
                                  ELSE 50))

\* search_projects_by_author with limit 100 sent pageSize=50
C19_Witness ==
    /\ HelperSent({"search_projects_by_author"})
    /\ input.args.limit = Some(100)
    /\ HasParam(SentUrl, "pageSize=", "50")
    /\ ~HasParam(SentUrl, "pageSize=", "100")

\* C20: get_categories and the search_projects_* helpers send gameId=432 when
\* their game_id argument is None, and the caller's id when one is given.
C20_DefaultGameIsMinecraft ==
    HelperSent(SearchHelpers \cup {"get_categories"}) =>
        /\ Cardinality(ParamPlaces(SentUrl, "gameId=")) = 1
        /\ HasParam(SentUrl, "gameId=",
                    ToString(IF input.args.game_id = None THEN 432
                             ELSE input.args.game_id.val))

\* C21: calls that run at the same time on one client do not interfere: while a
\* call is under way the client (its configuration and headers) is not written, a
\* step of one call changes nothing of the other call, and in every interleaving
\* each call makes the attempts and returns the value that request_with_retry,
\* run alone from start to end on the answers this call's sends met, makes and
\* returns.
C21_CallsDoNotInterfere ==
    /\ [](\A who \in Callers :
              calls[who].pc # "idle" =>
                  LET alone == request_with_retry(client, calls[who].endpoint,
                                                  calls[who].log)
                  IN  /\ alone.attempts = Len(calls[who].log)
                      /\ alone.result = calls[who].result)
    /\ [][(\E who \in Callers : calls[who].pc # "idle") => client' = client]_vars
    /\ [][\A who \in Callers :
              calls'[who] # calls[who] =>
                  \A other \in Callers \ {who} : calls'[other] = calls[other]]_vars

\* one call has returned a payload at its second attempt while the other, three
\* failures in, sleeps before its last attempt
C21_Witness ==
    /\ calls[1].pc = "done"
    /\ calls[1].result.tag = "Ok"
    /\ Len(calls[1].log) = 2
    /\ calls[2].pc = "sleeping"
    /\ calls[2].attempt = 3

\* C22: when the first k attempts of a get/post call fail with retryable errors
\* (k <= max_retries) and attempt k+1 succeeds, the call returns the payload
\* decoded from the response of attempt k+1, after exactly k+1 attempts and k
\* sleeps that alternate; no error is returned, and the only step after the
\* success is the caller taking the result: no further attempt or sleep.
C22_SuccessAfterRetries ==
    /\ []((Returned /\ result.tag = "Ok") =>
              /\ attempt <= client.config.max_retries
              /\ seen \ {"Ok"} \subseteq RetryableKinds
              /\ Attempts = attempt + 1
              /\ Sleeps = attempt
              /\ Len(events) = 2 * attempt + 1
              /\ \A i \in 1..Len(events) :
                     events[i].ev = IF i % 2 = 1 THEN "attempt" ELSE "sleep"
              /\ response.tag = "Some"
              /\ response.val.sent
              /\ is_success(response.val.status)
              /\ response.val.decodable
              /\ result = Ok([data |-> response.val.body]))
    /\ [][(Returned /\ result.tag = "Ok") => (pc' = "idle" /\ events' = <<>>)]_vars

\* a call returned the payload of its third attempt after a transport failure and
\* a 429
C22_Witness ==
    /\ Returned
    /\ attempt = 2
    /\ seen = {"Request", "RateLimitExceeded", "Ok"}
    /\ result = Ok([data |-> "body-b"])

\* C23: within one get/post call the builder closure runs exactly once in every
\* attempt: the call has built as many requests as it has made attempts, the i-th
\* one in the i-th pass of the loop from the URL that build_url gives for the
\* client's base URL and the endpoint, and a request is sent in the pass it was
\* built in and in no other (and not at all when the URL could not be built).
C23_RequestRebuiltEveryAttempt ==
    InCall =>
        /\ Len(requests) = Attempts
        /\ \A i \in 1..Len(requests) :
               /\ requests[i].built_in = i - 1
               /\ requests[i].request = UrlParse(client.config.base_url \o input.endpoint)
               /\ requests[i].sent_in = IF requests[i].request.tag = "Ok"
                                        THEN Some(i - 1) ELSE None

\* a call has made three attempts and sent a request in each
C23_Witness ==
    /\ Returned
    /\ Attempts = 3
    /\ Len(requests) = 3
    /\ requests[3].sent_in = Some(2)

\* C24: the fallback error Unknown("Request failed") is never returned by
\* get/post: whenever a pass of the loop is due the loop condition holds, for
\* every max_retries including 0, so a call that returned an error made at least
\* one attempt and returns the clone of the error its last attempt raised.
C24_FallbackNeverReturned ==
    /\ (InCall /\ pc = "loop") => attempt <= client.config.max_retries
    /\ (Returned /\ result.tag = "Err") =>
           /\ Attempts >= 1
           /\ raised.tag = "Some"
           /\ last_error.tag = "Some"
           /\ result.err = Clone(raised.val)
           /\ result.err # [kind |-> "Unknown", msg |-> "Request failed"]

\* a call with max_retries = 0 returned the error of its one attempt
C24_Witness ==
    /\ Returned
    /\ result.tag = "Err"
    /\ client.config.max_retries = 0
    /\ Attempts = 1
    /\ raised.tag = "Some"

\* C25: the error a get/post call returns classifies as the error its final
\* attempt raised: is_retryable of the one equals is_retryable of the other.
C25_ReturnedErrorClassifiesAsRaised ==
    (Returned /\ result.tag = "Err" /\ raised.tag = "Some") =>
        is_retryable(result.err) = is_retryable(raised.val)

\* C26: after any sequence of config_mut writes and calls, the Authorization and
\* User-Agent headers of every request are the ones derived from the
\* configuration given at construction: construction derives the client's
\* headers from that configuration, no later step (a config_mut write among them)
\* changes them, and every request of a call carries them.
C26_HeadersFixedAtConstruction ==
    /\ []((Constructing /\ client # NoClient) =>
              /\ client.config = GivenConfig
              /\ client.headers = [authorization |-> BearerPrefix \o GivenConfig.api_key,
                                   user_agent |-> GivenConfig.user_agent])
    /\ [][client # NoClient => client'.headers = client.headers]_vars
    /\ [](InCall => \A i \in 1..Len(requests) : requests[i].headers = client.headers)

\* a request was sent with a key that is not the one config().api_key shows
C26_Witness ==
    /\ InCall
    /\ requests # <<>>
    /\ requests[1].sent_in = Some(0)
    /\ requests[1].headers.authorization # BearerPrefix \o client.config.api_key
    /\ requests[1].headers.user_agent # client.config.user_agent

\* the number of requests the call has sent so far
Sends == Cardinality({i \in 1..Len(events) : events[i].ev = "send"})

\* an upload_file or download_file call has been started
FileCall == op \in {"upload_file", "download_file"}

\* upload_file has what it needs to send: the file opens, its size is read and is
\* within the limit, and the URL parses
UploadReachesSend ==
    /\ input.file.opens
    /\ input.file.metadata
    /\ input.file.size <= MAX_FILE_SIZE
    /\ UrlParse(client.config.base_url \o input.endpoint).tag = "Ok"

\* C27 as stated: download_file and upload_file each send exactly one HTTP request
\* per call and never sleep or retry.
C27_ExactlyOneRequest ==
    (FileCall /\ pc = "done") =>
        /\ Sends = 1
        /\ Sleeps = 0
        /\ Attempts = 0

\* C27: download_file sends exactly one request per call, and upload_file exactly
\* one when the file opens, is measured and within the size limit and the URL is
\* built, and none otherwise; neither sleeps, retries or counts attempts, whatever
\* max_retries is, and a transport failure or a 429 ends the call with an error.
C27_OneRequestNoRetry ==
    FileCall =>
        /\ Sends = IF op = "upload_file" /\ ~UploadReachesSend THEN 0 ELSE 1
        /\ Sleeps = 0
        /\ Attempts = 0
        /\ attempt = 0
        /\ pc \in {"streaming", "done"}
        /\ (response # None /\ (~response.val.sent \/ response.val.status = 429)) =>
               (pc = "done" /\ result.tag = "Err")

\* an upload on a client with max_retries = 3 met a 429 and returned after its
\* one request
C27_Witness ==
    /\ op = "upload_file"
    /\ pc = "done"
    /\ client.config.max_retries = 3
    /\ response # None
    /\ response.val.sent
    /\ response.val.status = 429
    /\ Sends = 1
    /\ result.tag = "Err"

\* C28: whenever download_file returns an error, before or after a 2xx response
\* was received, the destination path is as it was before the call: no file
\* created, an existing file not truncated, no partial body content on disk.
C28_FailedDownloadLeavesDestination ==
    (op = "download_file" /\ pc = "done" /\ result.tag = "Err") => file = input.before

\* a get_project_by_slug call has returned
SlugLookedUp == op = "get_project_by_slug" /\ pc = "done"

\* C29: get_project_by_slug asks for /mods/search with gameId=432 and the slug;
\* when the get succeeds it returns the first project of the list, or, for an
\* empty list, NotFound("Project with slug '<slug>' not found"); when the get
\* fails it returns the error the get returned.
C29_ProjectBySlug ==
    /\ op = "get_project_by_slug" =>
           /\ input.endpoint = <<"/", "mods", "/", "search", "?", "gameId=", "432", "&",
                                 "slug=">> \o input.args.slug
           /\ response # None =>
                  /\ Cardinality(ParamPlaces(SentUrl, "gameId=")) = 1
                  /\ HasParam(SentUrl, "gameId=", "432")
                  /\ Cardinality(ParamPlaces(SentUrl, "slug=")) = 1
                  /\ HasParam(SentUrl, "slug=", input.args.slug[1])
    /\ SlugLookedUp =>
           IF raised = None
           THEN LET data == ProjectList(response.val.body)
                IN  IF data = <<>>
                    THEN result = Err([kind |-> "NotFound",
                                       msg |-> IF input.args.slug = <<"jei">>
                                               THEN "Project with slug 'jei' not found"
                                               ELSE "Project with slug 'test' not found"])
                    ELSE result = Ok(data[1])
           ELSE /\ result = Err(Clone(raised.val))
                /\ last_error = Some(result.err)

\* the three outcomes: the first project of a list of two, NotFound for an empty
\* list, and the error of a get that failed
C29_Witness ==
    /\ SlugLookedUp
    /\ result = Ok("project-1")

C29_WitnessNotFound ==
    /\ SlugLookedUp
    /\ raised = None
    /\ result = Err([kind |-> "NotFound", msg |-> "Project with slug 'jei' not found"])

C29_WitnessGetFailed ==
    /\ SlugLookedUp
    /\ raised # None
    /\ result = Err([kind |-> "Unknown", msg |-> "Request error (not cloneable)"])

\* a parameter of the enum fields, with its key in camelCase
CamelParam(name, field) ==
    IF field = None THEN <<>> ELSE <<<<name, LowerToken(field.val)>>>>

\* C30: search_projects builds its query string from exactly the fields of the
\* request that are set, in the order gameId, classId, categoryId, gameVersion,
\* searchFilter, sortField, sortOrder, modLoaderType, gameVersionTypeId, authorId,
\* slug, index, pageSize, each as key=value joined by "&" with the key in that
\* camelCase; when no field is set the endpoint is /mods/search with no "?".
C30_QueryInCamelCase ==
    op = "search_projects" =>
        LET request == input.request
            params == NumberParam("gameId=", request.game_id)
                      \o NumberParam("classId=", request.class_id)
                      \o NumberParam("categoryId=", request.category_id)
                      \o TextParam("gameVersion=", request.game_version)
                      \o TextParam("searchFilter=", request.search_filter)
                      \o CamelParam("sortField=", request.sort_field)
                      \o CamelParam("sortOrder=", request.sort_order)
                      \o CamelParam("modLoaderType=", request.mod_loader_type)
                      \o NumberParam("gameVersionTypeId=", request.game_version_type_id)
                      \o NumberParam("authorId=", request.author_id)
                      \o TextParam("slug=", request.slug)
                      \o NumberParam("index=", request.index)
                      \o NumberParam("pageSize=", ClampLimit(request.page_size))
        IN  input.endpoint = IF params = <<>> THEN <<"/", "mods", "/", "search">>
                             ELSE <<"/", "mods", "/", "search", "?">> \o Join[params]

====
